---- MODULE Spec2Model ----
(***************************************************************************)
(* A model of APSC181liftsim.py: the airfoil lift visualiser's frame loop, *)
(* its input handling, its aerodynamic force model and its particle pool.  *)
(*                                                                         *)
(* Units.  The program computes in floating point; the model computes in   *)
(* fixed point on integers:                                                *)
(*   airfoil_angle, camera_rotation_x, camera_rotation_y   tenths of a     *)
(*                                                         degree          *)
(*   flow_velocity, particle speed                         tenths of m/s   *)
(*   camera_distance                                       tenths          *)
(*   particle x, y, z                                      thousandths     *)
(*   particle lifetime                                     tenths of a tick*)
(*   deflection_strength                                   millionths      *)
(*   sines and cosines                                     ten-thousandths *)
(*   coefficients and the stall factor                     thousandths     *)
(*   forces                                                tenths of N     *)
(***************************************************************************)
EXTENDS Integers, Sequences, FiniteSets

VARIABLES
    airfoil_angle,       \* module global, line 55
    flow_velocity,       \* module global, line 56
    camera_rotation_x,   \* module global, line 42
    camera_rotation_y,   \* module global, line 43
    camera_distance,     \* module global, line 41
    LIFT_COEFFICIENT,    \* module global, line 36
    DRAG_COEFFICIENT,    \* module global, line 37
    particles,           \* module global, line 154: the pool, in list order
    spawned,             \* number of SimpleParticle objects constructed so far
    debug_counter,       \* local of main, line 702
    pc,                  \* the statement of main's loop body that runs next
    frame,               \* number of loop iterations begun
    gl_textures,         \* texture names generated and not deleted
    tex_generated,       \* number of glGenTextures calls so far
    overlay_quads,       \* overlay quads issued since the last display flip
    trace,               \* the steps of the current iteration, in order
    report,              \* the diagnostic printed in the current iteration
    stall,               \* calculate_forces' latest stall_factor, with its angle
    loop,                \* the statements of the loop body, in order
    seed,                \* the random generator's seed
    held,                \* the keys the user holds, in the frame specifications
    reset_frame,         \* the iteration whose event queue holds KEYDOWN K_r
    usable,              \* the keys a session of the input specification uses
    last_reset,          \* whether the latest handle_events saw KEYDOWN K_r
    last_keys,           \* the keys held in that call, when it saw one
    upStreak             \* consecutive ticks with only K_UP held, from angle 0

inputVars == <<airfoil_angle, flow_velocity, camera_rotation_x,
               camera_rotation_y, camera_distance>>
coeffVars == <<LIFT_COEFFICIENT, DRAG_COEFFICIENT, stall>>
poolVars == <<particles, spawned>>
glVars == <<gl_textures, tex_generated, overlay_quads>>
loopVars == <<debug_counter, pc, frame, trace, report>>
envVars == <<seed, held, reset_frame, usable, loop>>
ghostVars == <<last_reset, last_keys, upStreak>>
vars == <<inputVars, coeffVars, poolVars, glVars, loopVars, envVars, ghostVars>>

----------------------------------------------------------------------------
(* Bounds of the model. *)

\* The 1000 ticks of the clamp scenario.
HoldTicks == 1000
\* The number of control axes (of five) one session of InputSpec exercises.
MaxAxes == 2
\* random.uniform yields the fractions 0/RngDen .. RngDen/RngDen of its range.
RngDen == 3
\* The strides s of the seeds <<a, s>>.
MaxStride == 1
\* Loop iterations of FrameSpec and of PoolSpec.
MaxFrames == 125
MaxPoolFrames == 340

----------------------------------------------------------------------------
(* Helpers: Python's min, max and abs. *)

Min(a, b) == IF a <= b THEN a ELSE b

Max(a, b) == IF a >= b THEN a ELSE b

Abs(a) == IF a < 0 THEN -a ELSE a

----------------------------------------------------------------------------
(* Keys. *)

Keys == {"K_UP", "K_DOWN", "K_RIGHT", "K_LEFT",
         "K_w", "K_s", "K_a", "K_d", "K_q", "K_e"}

Axes == {"angle", "velocity", "pitch", "yaw", "zoom"}

AxisKeys(axis) ==
    CASE axis = "angle" -> {"K_UP", "K_DOWN"}
      [] axis = "velocity" -> {"K_RIGHT", "K_LEFT"}
      [] axis = "pitch" -> {"K_w", "K_s"}
      [] axis = "yaw" -> {"K_a", "K_d"}
      [] axis = "zoom" -> {"K_q", "K_e"}

KeysOfAxes(P) == UNION {AxisKeys(a) : a \in P}

----------------------------------------------------------------------------
(* handle_events, lines 641-684.  reset: the event queue holds a KEYDOWN   *)
(* of K_r; keys: the set of keys pygame.key.get_pressed() reports held.    *)
(* The QUIT event ends the process and is not a step of the model.         *)

\* The event loop, lines 645-656.
ResetAngle(reset, a) == IF reset THEN 0 ELSE a

ResetVelocity(reset, v) == IF reset THEN 100 ELSE v

ResetRotationX(reset, rx) == IF reset THEN 300 ELSE rx

ResetRotationY(reset, ry) == IF reset THEN 450 ELSE ry

ResetDistanceSkipped(reset, d) == d

ResetDistance(reset, d) == IF reset THEN 100 ELSE d

\* Lines 661-664.
KeyAngleUnclamped(keys, a) ==
    LET a1 == IF "K_UP" \in keys THEN a + 5 ELSE a
    IN  IF "K_DOWN" \in keys THEN a1 - 5 ELSE a1

KeyAngle(keys, a) ==
    LET a1 == IF "K_UP" \in keys THEN Min(a + 5, 250) ELSE a
    IN  IF "K_DOWN" \in keys THEN Max(a1 - 5, -250) ELSE a1

\* Lines 667-670.
KeyVelocity(keys, v) ==
    LET v1 == IF "K_RIGHT" \in keys THEN Min(v + 2, 300) ELSE v
    IN  IF "K_LEFT" \in keys THEN Max(v1 - 2, 20) ELSE v1

\* Lines 673-676.
KeyRotationX(keys, rx) ==
    LET r1 == IF "K_w" \in keys THEN Min(rx + 10, 890) ELSE rx
    IN  IF "K_s" \in keys THEN Max(r1 - 10, -890) ELSE r1

\* Lines 677-680.  Python's % with a positive modulus is never negative, as
\* is TLA+'s.
KeyRotationYNoWrap(keys, ry) ==
    LET r1 == IF "K_a" \in keys THEN ry + 10 ELSE ry
    IN  IF "K_d" \in keys THEN r1 - 10 ELSE r1

KeyRotationY(keys, ry) ==
    LET r1 == IF "K_a" \in keys THEN (ry + 10) % 3600 ELSE ry
    IN  IF "K_d" \in keys THEN (r1 - 10) % 3600 ELSE r1

\* Lines 681-684.
KeyDistance(keys, d) ==
    LET d1 == IF "K_q" \in keys THEN Min(d + 2, 200) ELSE d
    IN  IF "K_e" \in keys THEN Max(d1 - 2, 30) ELSE d1

handle_events(reset, keys) ==
    /\ airfoil_angle' = KeyAngle(keys, ResetAngle(reset, airfoil_angle))
    /\ flow_velocity' = KeyVelocity(keys, ResetVelocity(reset, flow_velocity))
    /\ camera_rotation_x' =
           KeyRotationX(keys, ResetRotationX(reset, camera_rotation_x))
    /\ camera_rotation_y' =
           KeyRotationY(keys, ResetRotationY(reset, camera_rotation_y))
    /\ camera_distance' =
           KeyDistance(keys, ResetDistance(reset, camera_distance))
    /\ last_reset' = reset
    /\ last_keys' = IF reset THEN keys ELSE {}

----------------------------------------------------------------------------
(* math.sin and math.cos of math.radians(angle), lines 104 and 478, for    *)
(* the angles handle_events produces: multiples of 0.5 degrees in [-25, 25]. *)
(* Entry k + 1 is the value at k half-degrees, in ten-thousandths.          *)

SinTable ==
    <<0, 87, 175, 262, 349, 436, 523, 610, 698, 785, 872, 958, 1045, 1132,
      1219, 1305, 1392, 1478, 1564, 1650, 1736, 1822, 1908, 1994, 2079, 2164,
      2250, 2334, 2419, 2504, 2588, 2672, 2756, 2840, 2924, 3007, 3090, 3173,
      3256, 3338, 3420, 3502, 3584, 3665, 3746, 3827, 3907, 3987, 4067, 4147,
      4226>>

CosTable ==
    <<10000, 10000, 9998, 9997, 9994, 9990, 9986, 9981, 9976, 9969, 9962,
      9954, 9945, 9936, 9925, 9914, 9903, 9890, 9877, 9863, 9848, 9833, 9816,
      9799, 9781, 9763, 9744, 9724, 9703, 9681, 9659, 9636, 9613, 9588, 9563,
      9537, 9511, 9483, 9455, 9426, 9397, 9367, 9336, 9304, 9272, 9239, 9205,
      9171, 9135, 9100, 9063>>

Sin(angle) ==
    IF angle >= 0 THEN SinTable[angle \div 5 + 1]
    ELSE -SinTable[(-angle) \div 5 + 1]

Cos(angle) == CosTable[Abs(angle) \div 5 + 1]

\* Division that rounds toward zero, so that a value and its negative keep
\* the same magnitude, as they do in floating point.
Quot(a, b) == IF a >= 0 THEN a \div b ELSE -((-a) \div b)

----------------------------------------------------------------------------
(* calculate_forces, lines 474-503. *)

\* Line 485 without its max(0, ...).
StallFactorUnclamped(angle) == 1000 - ((Abs(angle) - 150) * 1000) \div 50

\* Line 485: max(0, 1 - (abs(airfoil_angle) - 15) / 5).
StallFactor(angle) == Max(0, 1000 - ((Abs(angle) - 150) * 1000) \div 50)

\* 2.0 * math.pi * math.sin(alpha) * (1 - 0.3 * math.sin(alpha)**2), in
\* ten-thousandths.
LiftCurve(angle) ==
    LET s == Sin(angle)
        shape == 10000 - (3 * ((s * s) \div 10000)) \div 10
    IN  Quot(Quot(62832 * s, 10000) * shape, 10000)

\* Lines 481-486.
LiftCoefficient(angle) ==
    IF Abs(angle) < 150
    THEN Quot(LiftCurve(angle), 10)
    ELSE Quot(Quot(LiftCurve(angle) * StallFactor(angle), 1000), 10)

\* Lines 489-494.
DragCoefficient(angle) ==
    LET cl == LiftCoefficient(angle)
        induced == 15 + (cl * cl) \div 7854
    IN  IF Abs(angle) > 150 THEN induced + 5 * (Abs(angle) - 150) ELSE induced

\* Line 497, in tenths of a pascal.
DynamicPressure(velocity) == (1225 * velocity * velocity) \div 20000

\* Lines 500-501, with REFERENCE_AREA = 10.
LiftForce(angle, velocity) ==
    Quot(LiftCoefficient(angle) * DynamicPressure(velocity), 100)

DragForce(angle, velocity) ==
    (DragCoefficient(angle) * DynamicPressure(velocity)) \div 100

\* The assignments calculate_forces makes: the two globals, and its local
\* stall_factor when the else branch of line 484 runs.
calculate_forces ==
    /\ LIFT_COEFFICIENT' = LiftCoefficient(airfoil_angle)
    /\ DRAG_COEFFICIENT' = DragCoefficient(airfoil_angle)
    /\ stall' = IF Abs(airfoil_angle) < 150 THEN stall
                ELSE <<airfoil_angle, StallFactor(airfoil_angle)>>

----------------------------------------------------------------------------
(* The random module.  A run's draws are a function of the generator's     *)
(* seed: draw number n of a run with seed <<a, s>> is the fraction          *)
(* ((a + s * n) mod (RngDen + 1)) / RngDen of the interval.                 *)

RngOut(n) == (seed[1] + seed[2] * n) % (RngDen + 1)

\* random.uniform(lo, hi) as draw number n.
Uniform(lo, hi, n) == lo + ((hi - lo) * RngOut(n)) \div RngDen

----------------------------------------------------------------------------
(* SimpleParticle, lines 85-129.  id is the object's identity: the number  *)
(* of particles constructed before it.                                      *)

\* __init__, lines 86-95, for the particle constructed k-th (from 0).
SimpleParticle(k) ==
    [id |-> k,
     x |-> Uniform(-10000, -5000, 4 * k),
     y |-> Uniform(-2000000, 2000000, 4 * k + 1),
     z |-> Uniform(-1000, 1000, 4 * k + 2),
     speed |-> flow_velocity,
     lifetime |-> Uniform(1500, 2500, 4 * k + 3),
     max_lifetime |-> Uniform(1500, 2500, 4 * k + 3),
     color |-> "grey",
     deflected |-> FALSE,
     deflection_strength |-> 0]

\* Line 126.
Fade(strength) == Quot(strength * 9995, 10000)

\* Lines 104-106: the position relative to the airfoil, in thousandths.
RelX(x, y, angle) == Quot(x * Cos(angle) + Quot(y, 1000) * Sin(angle), 10000)

RelY(x, y, angle) == Quot(Quot(y, 1000) * Cos(angle) - x * Sin(angle), 10000)

\* Lines 111-117.
DeflectionStrength(x, y, angle) ==
    LET rel_y == RelY(x, y, angle)
        direction == IF rel_y > 0 THEN -1 ELSE 1
        distance_factor == 1000 - Min(1000, Abs(rel_y))
        angle_factor == (Abs(Sin(angle)) * 15) \div 100 + 500
    IN  direction * ((distance_factor * angle_factor) \div 10)

\* Line 102 without its "not self.deflected".
NearAirfoilAgain(p, x) == x >= -2000 /\ x <= 3000

\* Line 102.
NearAirfoil(p, x) == ~p.deflected /\ x >= -2000 /\ x <= 3000

\* Line 109.
OverAirfoil(x, y, angle) ==
    /\ RelX(x, y, angle) >= -2500 /\ RelX(x, y, angle) <= 2500
    /\ Abs(RelY(x, y, angle)) <= 1000

\* Lines 97-129 with the live flow_velocity for self.speed in line 99.
UpdateAtFlowVelocity(p, angle) ==
    LET x == p.x + flow_velocity * 5
        hit == NearAirfoil(p, x) /\ OverAirfoil(x, p.y, angle)
        deflected == p.deflected \/ hit
        strength == IF hit THEN DeflectionStrength(x, p.y, angle)
                    ELSE p.deflection_strength
    IN  [p EXCEPT !.x = x,
                  !.y = IF deflected THEN p.y + strength ELSE p.y,
                  !.deflected = deflected,
                  !.color = IF hit THEN "pink" ELSE p.color,
                  !.deflection_strength =
                      IF deflected THEN Fade(strength) ELSE strength,
                  !.lifetime = p.lifetime - 10]

\* update, lines 97-129.
Update(p, angle) ==
    LET x == p.x + p.speed * 5
        hit == NearAirfoil(p, x) /\ OverAirfoil(x, p.y, angle)
        deflected == p.deflected \/ hit
        strength == IF hit THEN DeflectionStrength(x, p.y, angle)
                    ELSE p.deflection_strength
    IN  [p EXCEPT !.x = x,
                  !.y = IF deflected THEN p.y + strength ELSE p.y,
                  !.deflected = deflected,
                  !.color = IF hit THEN "pink" ELSE p.color,
                  !.deflection_strength =
                      IF deflected THEN Fade(strength) ELSE strength,
                  !.lifetime = p.lifetime - 10]

\* Line 167 with no particle ever found dead.
DeadNever(p) == FALSE

\* Line 167 without its test of the lifetime.
DeadOutOfBounds(p) ==
    \/ p.x > 15000
    \/ Abs(p.y) > 10000000
    \/ Abs(p.z) > 10000

\* Line 167.
Dead(p) ==
    \/ p.lifetime <= 0
    \/ p.x > 15000
    \/ Abs(p.y) > 10000000
    \/ Abs(p.z) > 10000

----------------------------------------------------------------------------
(* Particle system, lines 153-173. *)

MAX_PARTICLES == 1000

\* generate_particles, lines 157-161.
generate_particles ==
    IF Len(particles) < MAX_PARTICLES
    THEN /\ particles' = particles \o <<SimpleParticle(spawned),
                                        SimpleParticle(spawned + 1),
                                        SimpleParticle(spawned + 2)>>
         /\ spawned' = spawned + 3
    ELSE UNCHANGED <<particles, spawned>>

\* Lines 163-168 with "for particle in particles" for line 165: the list
\* iterator reads place i of the list as it then is, so the particle after a
\* removed one is passed over.
update_particles_in_place ==
    LET RECURSIVE Loop(_, _)
        Loop(pool, i) ==
            IF i > Len(pool) THEN pool
            ELSE LET u == Update(pool[i], airfoil_angle)
                 IN  IF Dead(u)
                     THEN Loop(SubSeq(pool, 1, i - 1)
                                   \o SubSeq(pool, i + 1, Len(pool)), i + 1)
                     ELSE Loop([pool EXCEPT ![i] = u], i + 1)
    IN  /\ particles' = Loop(particles, 1)
        /\ UNCHANGED spawned

\* update_particles, lines 163-168: every particle of the copy particles[:]
\* is updated, and removed from the pool when it is then dead.
update_particles ==
    LET updated == [i \in 1..Len(particles) |->
                        Update(particles[i], airfoil_angle)]
        Alive(p) == ~Dead(p)
    IN  /\ particles' = SelectSeq(updated, Alive)
        /\ UNCHANGED spawned

----------------------------------------------------------------------------
(* draw_text_overlay, lines 505-639. *)

\* glGenTextures(1), line 606: a name not in use.
glGenTextures(textures) ==
    CHOOSE t \in 1..(Cardinality(textures) + 1) : t \notin textures

\* Lines 606-629 without glDeleteTextures.
OverlayTexturesLeaked(textures) == textures \cup {glGenTextures(textures)}

\* Lines 606-629: the texture is generated, drawn and deleted.
OverlayTextures(textures) ==
    (textures \cup {glGenTextures(textures)}) \ {glGenTextures(textures)}

draw_text_overlay ==
    /\ calculate_forces
    /\ gl_textures' = OverlayTextures(gl_textures)
    /\ tex_generated' = tex_generated + 1
    /\ overlay_quads' = overlay_quads + 1

----------------------------------------------------------------------------
(* main, lines 697-740: one action for each statement of the loop body.    *)

\* The loop body with the particles drawn before they are updated.
MainLoopDrawFirst ==
    <<"handle_events", "glClear", "setup_camera", "draw_text_overlay_714",
      "draw_grid", "draw_airfoil", "draw_force_vectors", "generate_particles",
      "draw_particles", "update_particles", "draw_text_overlay_727", "debug",
      "flip">>

\* The loop body of main, lines 706-740.
MainLoop ==
    <<"handle_events", "glClear", "setup_camera", "draw_text_overlay_714",
      "draw_grid", "draw_airfoil", "draw_force_vectors", "generate_particles",
      "update_particles", "draw_particles", "draw_text_overlay_727", "debug",
      "flip">>

\* The part of it that simulates: lines 706, 722 and 723.
SimLoop == <<"handle_events", "generate_particles", "update_particles">>

FrameLimit == IF loop = SimLoop THEN MaxPoolFrames ELSE MaxFrames

\* Control passes from the statement at pc to the one after it.
StepOver(label) ==
    /\ loop[pc] = label
    /\ pc' = (pc % Len(loop)) + 1
    /\ trace' = Append(trace, label)

\* Line 731 with > for >=.
DebugDueLate(counter) == counter > 60

\* Line 731.
DebugDue(counter) == counter >= 60

\* Line 706.  KEYDOWN K_r is in the queue of iteration reset_frame.
HandleEventsStep ==
    /\ loop[pc] = "handle_events"
    /\ frame < FrameLimit
    /\ pc' = (pc % Len(loop)) + 1
    /\ trace' = <<"handle_events">>
    /\ frame' = frame + 1
    /\ report' = <<>>
    /\ handle_events(frame + 1 = reset_frame, held)
    /\ UNCHANGED <<coeffVars, poolVars, glVars, debug_counter, envVars, upStreak>>

\* Line 709.
ClearStep ==
    /\ StepOver("glClear")
    /\ UNCHANGED <<inputVars, coeffVars, poolVars, glVars, debug_counter,
                   frame, report, envVars, ghostVars>>

\* Line 712.
CameraStep ==
    /\ StepOver("setup_camera")
    /\ UNCHANGED <<inputVars, coeffVars, poolVars, glVars, debug_counter,
                   frame, report, envVars, ghostVars>>

\* Line 714.
OverlayStep714 ==
    /\ StepOver("draw_text_overlay_714")
    /\ draw_text_overlay
    /\ UNCHANGED <<inputVars, poolVars, debug_counter, frame, report,
                   envVars, ghostVars>>

\* Line 717.
GridStep ==
    /\ StepOver("draw_grid")
    /\ UNCHANGED <<inputVars, coeffVars, poolVars, glVars, debug_counter,
                   frame, report, envVars, ghostVars>>

\* Line 718.
AirfoilStep ==
    /\ StepOver("draw_airfoil")
    /\ UNCHANGED <<inputVars, coeffVars, poolVars, glVars, debug_counter,
                   frame, report, envVars, ghostVars>>

\* Line 719: draw_force_vectors calls calculate_forces, line 343.
ForceVectorsStep ==
    /\ StepOver("draw_force_vectors")
    /\ calculate_forces
    /\ UNCHANGED <<inputVars, poolVars, glVars, debug_counter, frame, report,
                   envVars, ghostVars>>

\* Line 722.
GenerateStep ==
    /\ StepOver("generate_particles")
    /\ generate_particles
    /\ UNCHANGED <<inputVars, coeffVars, glVars, debug_counter, frame, report,
                   envVars, ghostVars>>

\* Line 723.
UpdateStep ==
    /\ StepOver("update_particles")
    /\ update_particles
    /\ UNCHANGED <<inputVars, coeffVars, glVars, debug_counter, frame, report,
                   envVars, ghostVars>>

\* Line 724.
DrawParticlesStep ==
    /\ StepOver("draw_particles")
    /\ UNCHANGED <<inputVars, coeffVars, poolVars, glVars, debug_counter,
                   frame, report, envVars, ghostVars>>

\* Line 727.
OverlayStep727 ==
    /\ StepOver("draw_text_overlay_727")
    /\ draw_text_overlay
    /\ UNCHANGED <<inputVars, poolVars, debug_counter, frame, report,
                   envVars, ghostVars>>

\* Lines 730-735: the two print calls emit the angle, the forces and the
\* coefficients that calculate_forces has just computed.
DebugStep ==
    /\ StepOver("debug")
    /\ IF DebugDue(debug_counter + 1)
       THEN /\ debug_counter' = 0
            /\ calculate_forces
            /\ report' = [angle |-> airfoil_angle,
                          lift |-> LiftForce(airfoil_angle, flow_velocity),
                          drag |-> DragForce(airfoil_angle, flow_velocity),
                          lift_coefficient |-> LIFT_COEFFICIENT',
                          drag_coefficient |-> DRAG_COEFFICIENT']
       ELSE /\ debug_counter' = debug_counter + 1
            /\ UNCHANGED <<coeffVars, report>>
    /\ UNCHANGED <<inputVars, poolVars, glVars, frame, envVars, ghostVars>>

\* Lines 739-740: the display flip ends the frame.
FlipStep ==
    /\ StepOver("flip")
    /\ overlay_quads' = 0
    /\ UNCHANGED <<inputVars, coeffVars, poolVars, gl_textures, tex_generated,
                   debug_counter, frame, report, envVars, ghostVars>>

----------------------------------------------------------------------------
(* The state after the module's top-level statements have run. *)

ProgramInit ==
    /\ airfoil_angle = 0
    /\ flow_velocity = 20
    /\ camera_rotation_x = 100
    /\ camera_rotation_y = 450
    /\ camera_distance = 150
    /\ LIFT_COEFFICIENT = 0
    /\ DRAG_COEFFICIENT = 20
    /\ stall = <<>>
    /\ particles = <<>>
    /\ spawned = 0
    /\ debug_counter = 0
    /\ pc = 1
    /\ frame = 0
    /\ gl_textures = {}
    /\ tex_generated = 0
    /\ overlay_quads = 0
    /\ trace = <<>>
    /\ report = <<>>
    /\ last_reset = FALSE
    /\ last_keys = {}
    /\ upStreak = 0

----------------------------------------------------------------------------
(* Input ticks alone: handle_events is the only function that assigns the  *)
(* five input globals (its global statement, line 643), so a sequence of   *)
(* input ticks is a sequence of handle_events calls.                       *)

\* A tick of the airfoil keys, counting how long only K_UP has been held.
AirfoilTick ==
    \E reset \in BOOLEAN, keys \in SUBSET KeysOfAxes({"angle", "velocity"}) :
        /\ handle_events(reset, keys)
        /\ upStreak' = IF ~reset /\ keys = {"K_UP"}
                          /\ (upStreak > 0 \/ airfoil_angle = 0)
                       THEN Min(upStreak + 1, HoldTicks)
                       ELSE 0
        /\ UNCHANGED <<coeffVars, poolVars, glVars, loopVars, envVars>>

AirfoilInit ==
    /\ ProgramInit
    /\ seed = 0
    /\ held = {}
    /\ reset_frame = 0
    /\ loop = <<"handle_events">>
    /\ usable = KeysOfAxes({"angle", "velocity"})

AirfoilSpec == AirfoilInit /\ [][AirfoilTick]_vars

\* A tick of a session that uses the keys of at most MaxAxes axes.
InputTick ==
    \E reset \in BOOLEAN, keys \in SUBSET usable :
        /\ handle_events(reset, keys)
        /\ UNCHANGED <<upStreak, coeffVars, poolVars, glVars, loopVars, envVars>>

InputInit ==
    /\ ProgramInit
    /\ seed = 0
    /\ held = {}
    /\ reset_frame = 0
    /\ loop = <<"handle_events">>
    /\ usable \in {KeysOfAxes(P) : P \in {Q \in SUBSET Axes : Cardinality(Q) <= MaxAxes}}

InputSpec == InputInit /\ [][InputTick]_vars

\* A session of the camera keys, using those of at most MaxAxes axes.
CameraInit ==
    /\ ProgramInit
    /\ seed = 0
    /\ held = {}
    /\ reset_frame = 0
    /\ loop = <<"handle_events">>
    /\ usable \in {KeysOfAxes(P) :
                      P \in {Q \in SUBSET {"pitch", "yaw", "zoom"} :
                                 Cardinality(Q) <= MaxAxes}}

CameraSpec == CameraInit /\ [][InputTick]_vars

----------------------------------------------------------------------------
(* The frame loop.  A run is fixed by the generator's seed, the keys the    *)
(* user holds throughout, and the iteration in which the reset key goes     *)
(* down (0: never).                                                         *)

Seeds == {<<a, s>> : a \in 0..RngDen, s \in 0..MaxStride}

FrameHeld ==
    {{}, {"K_UP", "K_RIGHT"}, {"K_DOWN", "K_LEFT", "K_w", "K_a", "K_q"}}

FrameInit ==
    /\ ProgramInit
    /\ seed \in Seeds
    /\ held \in FrameHeld
    /\ reset_frame \in {0, 100}
    /\ usable = {}
    /\ loop = MainLoop

FrameNext ==
    \/ HandleEventsStep
    \/ ClearStep
    \/ CameraStep
    \/ OverlayStep714
    \/ GridStep
    \/ AirfoilStep
    \/ ForceVectorsStep
    \/ GenerateStep
    \/ UpdateStep
    \/ DrawParticlesStep
    \/ OverlayStep727
    \/ DebugStep
    \/ FlipStep

FrameSpec == FrameInit /\ [][FrameNext]_vars

\* The simulation steps of the loop alone.
PoolHeld == {{}, {"K_UP", "K_RIGHT"}, {"K_DOWN"}}

PoolInit ==
    /\ ProgramInit
    /\ seed \in Seeds
    /\ held \in PoolHeld
    /\ reset_frame \in {0, 2}
    /\ usable = {}
    /\ loop = SimLoop

PoolNext == HandleEventsStep \/ GenerateStep \/ UpdateStep

PoolSpec == PoolInit /\ [][PoolNext]_vars

\* Control passes to the next statement of the loop body.
Advance ==
    /\ loop[pc] = "handle_events" => frame < FrameLimit
    /\ pc' = (pc % Len(loop)) + 1

\* The loop of main is "while True" (line 704) and no statement of its
\* body blocks: control keeps passing to the next statement.
PoolRun == PoolInit /\ [][PoolNext]_vars /\ WF_pc(Advance)

----------------------------------------------------------------------------
(* C1: after any sequence of frames the pool never holds more than        *)
(* MAX_PARTICLES = 1000 particles, the state between the spawn step and    *)
(* the update step of a frame included.                                    *)
C1_PoolCap == Len(particles) <= MAX_PARTICLES

\* The fullest pool: 250 iterations' particles, between spawn and update.
C1_Witness == Len(particles) = 750 /\ loop[pc] = "update_particles"

----------------------------------------------------------------------------
(* C2: after any sequence of input ticks the angle of attack is within     *)
(* [-25, 25] degrees and the flow velocity within [2, 30] m/s, and holding  *)
(* only K_UP for 1000 ticks from angle 0 leaves the angle at exactly 25.0.  *)
C2_Clamps ==
    /\ airfoil_angle >= -250 /\ airfoil_angle <= 250
    /\ flow_velocity >= 20 /\ flow_velocity <= 300
    /\ upStreak = HoldTicks => airfoil_angle = 250

C2_Witness == upStreak = HoldTicks /\ airfoil_angle = 250

----------------------------------------------------------------------------
(* C3, as claimed: at the end of a handle_events call that saw the reset   *)
(* key, the five values are exactly 0, 10.0, 30.0, 45.0 and 10.0, whatever  *)
(* other keys are held.                                                     *)
C3_ResetExactWhateverHeld ==
    last_reset =>
        /\ airfoil_angle = 0
        /\ flow_velocity = 100
        /\ camera_rotation_x = 300
        /\ camera_rotation_y = 450
        /\ camera_distance = 100

Step(keys, inc, dec, by) ==
    (IF inc \in keys THEN by ELSE 0) - (IF dec \in keys THEN by ELSE 0)

(* C3, amended: at the end of a handle_events call that saw the reset key, *)
(* each of the five values is its reset value moved by the one-tick step of *)
(* the keys of its axis held in that call: exactly 0, 10.0, 30.0, 45.0 and  *)
(* 10.0 when no adjustment key is held.                                     *)
C3_ResetThenHeldKeys ==
    last_reset =>
        /\ airfoil_angle = 0 + Step(last_keys, "K_UP", "K_DOWN", 5)
        /\ flow_velocity = 100 + Step(last_keys, "K_RIGHT", "K_LEFT", 2)
        /\ camera_rotation_x = 300 + Step(last_keys, "K_w", "K_s", 10)
        /\ camera_rotation_y = 450 + Step(last_keys, "K_a", "K_d", 10)
        /\ camera_distance = 100 + Step(last_keys, "K_q", "K_e", 2)

C3_Witness ==
    /\ last_reset
    /\ last_keys = {"K_UP", "K_e"}
    /\ airfoil_angle = 5
    /\ camera_distance = 98
    /\ flow_velocity = 100

----------------------------------------------------------------------------
(* C4: once a particle's deflected flag is true it stays true while the    *)
(* particle is in the pool, and every later update changes its             *)
(* deflection_strength by the decay of line 126 alone, also when the angle *)
(* of attack has changed and the particle is still in the band [-2, 3].    *)
Removed == Max(0, Len(particles) - Len(particles'))

\* The pool keeps its order, so the particle at place i is afterwards at a
\* place from i - Removed to i.
DeflectionLatched ==
    \A i \in 1..Len(particles) :
        particles[i].deflected =>
            \A j \in Max(1, i - Removed)..Min(i, Len(particles')) :
                particles'[j].id = particles[i].id =>
                    /\ particles'[j].deflected
                    /\ particles'[j].deflection_strength =
                           IF loop[pc] = "update_particles"
                           THEN Fade(particles[i].deflection_strength)
                           ELSE particles[i].deflection_strength

----------------------------------------------------------------------------
(* C5, as claimed: in every frame no scene or overlay draw happens before  *)
(* the frame's particle update, and no state is mutated after the frame's  *)
(* first draw.                                                              *)
DrawSteps ==
    {"draw_text_overlay_714", "draw_grid", "draw_airfoil",
     "draw_force_vectors", "draw_particles", "draw_text_overlay_727"}

MutatingSteps == {"handle_events", "generate_particles", "update_particles"}

Before(a, k) == \E j \in 1..(k - 1) : trace[j] = a

C5_SimulateThenRender ==
    \A k \in 1..Len(trace) :
        /\ trace[k] \in DrawSteps => Before("update_particles", k)
        /\ trace[k] \in MutatingSteps =>
               ~\E j \in 1..(k - 1) : trace[j] \in DrawSteps

(* C5, amended: every frame runs the statements of main's loop body one    *)
(* after the other, each once: handle_events first and the display flip    *)
(* last; the particles are spawned before they are updated; the particle   *)
(* draw and the overlay draw of line 727 come after the frame's particle   *)
(* update, while the overlay draw of line 714 and the grid, airfoil and    *)
(* force-vector draws come before it; the angle, the velocity and the      *)
(* camera are assigned by handle_events alone, before the first draw, and  *)
(* the pool by generate_particles and update_particles alone.              *)
FrameOrder ==
    /\ \A j, k \in 1..Len(trace) : trace[j] = trace[k] => j = k
    /\ \A k \in 1..Len(trace) :
        /\ trace[k] = "handle_events" => k = 1
        /\ trace[k] = "update_particles" => Before("generate_particles", k)
        /\ trace[k] \in {"draw_particles", "draw_text_overlay_727"}
               => Before("update_particles", k)
        /\ trace[k] \in {"draw_text_overlay_714", "draw_grid", "draw_airfoil",
                         "draw_force_vectors"}
               => ~Before("generate_particles", k)
        /\ trace[k] \in DrawSteps => Before("glClear", k) /\ Before("setup_camera", k)
        /\ trace[k] = "debug" => Before("draw_text_overlay_727", k)
        /\ trace[k] = "flip" =>
               /\ k = Len(trace)
               /\ \A d \in DrawSteps \cup {"debug"} : Before(d, k)

FrameEffects ==
    /\ inputVars' # inputVars => loop[pc] = "handle_events"
    /\ poolVars' # poolVars =>
           loop[pc] \in {"generate_particles", "update_particles"}

C5_FrameOrder == []FrameOrder /\ [][FrameEffects]_vars

C5_Witness ==
    /\ Len(trace) = 13
    /\ trace[13] = "flip"
    /\ Len(particles) > 0
    /\ airfoil_angle # 0

----------------------------------------------------------------------------
(* C6: after any sequence of camera key ticks and resets the camera        *)
(* distance is within [3, 20], the pitch within [-89, 89] and the yaw       *)
(* within [0, 360); the yaw wraps modulo 360 in both directions: a          *)
(* decrement from 0 gives 359 and an increment from 359 gives 0.            *)
CameraInRange ==
    /\ camera_distance >= 30 /\ camera_distance <= 200
    /\ camera_rotation_x >= -890 /\ camera_rotation_x <= 890
    /\ camera_rotation_y >= 0 /\ camera_rotation_y < 3600

YawWraps ==
    camera_rotation_y \in {0, 3590} =>
        \A keys \in SUBSET usable :
            handle_events(FALSE, keys) =>
                /\ ("K_d" \in keys /\ "K_a" \notin keys /\ camera_rotation_y = 0)
                       => camera_rotation_y' = 3590
                /\ ("K_a" \in keys /\ "K_d" \notin keys /\ camera_rotation_y = 3590)
                       => camera_rotation_y' = 0

C6_Camera == CameraInRange /\ [][CameraInRange' /\ YawWraps]_vars

C6_Witness == camera_rotation_y = 3590 /\ camera_distance = 30

----------------------------------------------------------------------------
(* C7: the stall factor calculate_forces uses, for the angles on the half- *)
(* degree grid in [-25, 25], is 1 at |angle| = 15, does not increase as     *)
(* |angle| grows over [15, 20], and is exactly 0, never negative, for every *)
(* |angle| >= 20.                                                           *)
StallShape ==
    stall # <<>> =>
        /\ stall[2] >= 0 /\ stall[2] <= 1000
        /\ Abs(stall[1]) = 150 => stall[2] = 1000
        /\ Abs(stall[1]) >= 200 => stall[2] = 0

StallMonotone ==
    (/\ stall # <<>>
     /\ stall' # <<>>
     /\ Abs(stall[1]) >= 150
     /\ Abs(stall[1]) <= Abs(stall'[1])
     /\ Abs(stall'[1]) <= 200) => stall'[2] <= stall[2]

C7_StallFactor == []StallShape /\ [][StallMonotone]_vars

C7_Witness == stall # <<>> /\ stall[1] = -205 /\ stall[2] = 0

----------------------------------------------------------------------------
(* C8: the diagnostic is printed in frame k exactly when k is a positive   *)
(* multiple of 60, frames counted from 1, and reports the angle and the    *)
(* forces and coefficients of the angle and velocity current in that frame. *)
C8_Diagnostics ==
    /\ ~(\E k \in 1..Len(trace) : trace[k] = "debug") => report = <<>>
    /\ (\E k \in 1..Len(trace) : trace[k] = "debug") =>
        /\ report # <<>> <=> (frame > 0 /\ frame % 60 = 0)
        /\ report # <<>> =>
            /\ report.angle = airfoil_angle
            /\ report.lift = LiftForce(airfoil_angle, flow_velocity)
            /\ report.drag = DragForce(airfoil_angle, flow_velocity)
            /\ report.lift_coefficient = LiftCoefficient(airfoil_angle)
            /\ report.drag_coefficient = DragCoefficient(airfoil_angle)

C8_Witness ==
    /\ report # <<>>
    /\ frame = 120
    /\ report.angle = 105
    /\ report.lift > 0

----------------------------------------------------------------------------
(* C9, as claimed: exactly one overlay quad is issued to the renderer in   *)
(* each frame, between one display flip and the next.                       *)
C9_OneOverlayQuad == loop[pc] = "flip" => overlay_quads = 1

----------------------------------------------------------------------------
(* C10: every overlay texture generated during a frame is deleted within   *)
(* that frame: at each display flip no generated texture is left undeleted, *)
(* however many frames have run.                                            *)
C10_TexturesReleased == loop[pc] = "flip" => Cardinality(gl_textures) = 0

C10_Witness ==
    /\ loop[pc] = "flip"
    /\ frame = MaxFrames
    /\ tex_generated = 2 * MaxFrames
    /\ gl_textures = {}

----------------------------------------------------------------------------
(* C11: after each completed update_particles call no particle remaining   *)
(* in the pool has lifetime <= 0, x > 15, |y| > 10 or |z| > 10; the call   *)
(* removes a particle only if one of these holds for it after its own      *)
(* update of that tick, and every particle in the pool at the start of the *)
(* call is updated exactly once (its lifetime decreased by exactly 1),     *)
(* whatever other particles the call removes.                              *)
JustUpdated == trace # <<>> /\ trace[Len(trace)] = "update_particles"

NoDeadRemains ==
    JustUpdated => \A i \in 1..Len(particles) : ~Dead(particles[i])

\* Each particle is in the list once: the ids grow along it.
OncePerParticle(pool) ==
    \A j \in 1..(Len(pool) - 1) : pool[j].id < pool[j + 1].id

\* Of one update_particles call.  A particle that is not dead after its
\* update stays, updated once; one that is dead after it is gone; and every
\* particle the call leaves is one it started with that is not dead after
\* its update.  The list keeps its order, so the particle at place i is
\* afterwards at a place from i - Removed to i.
SnapshotThenFilter ==
    loop[pc] = "update_particles" =>
        /\ OncePerParticle(particles)
        /\ OncePerParticle(particles')
        /\ \A i \in 1..Len(particles) :
               LET u == Update(particles[i], airfoil_angle)
                   places == Max(1, i - Removed)..Min(i, Len(particles'))
               IN  IF Dead(u)
                   THEN \A j \in places : particles'[j].id # u.id
                   ELSE \E j \in places :
                            /\ particles'[j] = u
                            /\ particles'[j].lifetime =
                                   particles[i].lifetime - 10
        /\ \A j \in 1..Len(particles') :
               \E i \in j..Min(j + Removed, Len(particles)) :
                   /\ particles'[j].id = particles[i].id
                   /\ ~Dead(Update(particles[i], airfoil_angle))

C11_UpdateParticles == []NoDeadRemains /\ [][SnapshotThenFilter]_vars

\* A call has just removed a particle from between two that stay: the one
\* after it in the list was updated all the same.
C11_Witness ==
    /\ JustUpdated
    /\ \E j \in 1..(Len(particles) - 1) :
           /\ particles[j + 1].id > particles[j].id + 1
           /\ particles[j + 1].lifetime < particles[j + 1].max_lifetime
           /\ particles[j + 1].x <= 15000

----------------------------------------------------------------------------
(* C12: a particle's speed is the global flow velocity of the moment it    *)
(* was spawned and never changes afterwards: a later change of the flow    *)
(* velocity, by a key or by the reset, leaves the speed of every particle  *)
(* in the pool as it was, and each tick advances the particle's x by       *)
(* exactly speed * 0.05.                                                   *)
Ticks(p) == (p.max_lifetime - p.lifetime) \div 10

\* In every step: a particle that stays in the pool keeps its speed, and an
\* update moves its x by speed * 0.05; a particle the step appends has the
\* flow velocity the step runs at.
SpeedFixedAtSpawn ==
    /\ \A i \in 1..Len(particles) :
           \A j \in Max(1, i - Removed)..Min(i, Len(particles')) :
               particles'[j].id = particles[i].id =>
                   /\ particles'[j].speed = particles[i].speed
                   /\ particles'[j].x =
                          IF loop[pc] = "update_particles"
                          THEN particles[i].x + particles[i].speed * 5
                          ELSE particles[i].x
    /\ \A j \in (Len(particles) + 1)..Len(particles') :
           /\ loop[pc] = "generate_particles"
           /\ particles'[j].speed = flow_velocity

\* In every state: a particle is where its speed has carried it from its
\* spawn point in the ticks it has lived.
CarriedBySpeed ==
    \A i \in 1..Len(particles) :
        particles[i].x = Uniform(-10000, -5000, 4 * particles[i].id)
                            + Ticks(particles[i]) * particles[i].speed * 5

C12_SpeedFixed == []CarriedBySpeed /\ [][SpeedFixedAtSpawn]_vars

\* The flow velocity has gone from 2.2 m/s through the reset up to 30 m/s,
\* and a particle spawned at 2.2 m/s has been updated at that speed since.
C12_Witness ==
    /\ JustUpdated
    /\ flow_velocity = 300
    /\ last_reset = FALSE
    /\ reset_frame = 2
    /\ Len(particles) > 0
    /\ particles[1].speed = 22
    /\ Ticks(particles[1]) > 100

----------------------------------------------------------------------------
(* C13: every spawned particle is eventually removed from the pool, at the *)
(* latest in the 250th update tick after its creation, whatever its        *)
(* position, its deflection state and the user's inputs: its lifetime at   *)
(* spawn is at most 250 and goes down by 1 in every tick of the loop.      *)

\* generate_particles runs in every iteration and makes three particles.
SpawnFrame(p) == p.id \div 3 + 1

\* The update ticks a particle has been through.
Age(p) ==
    frame - SpawnFrame(p)
        + (IF \E n \in 1..Len(trace) : trace[n] = "update_particles"
           THEN 1 ELSE 0)

\* A particle in the pool has been through fewer than 250 ticks, each of
\* which took 1 from its lifetime.
AgeBound ==
    \A i \in 1..Len(particles) :
        /\ Age(particles[i]) >= 0
        /\ Age(particles[i]) < 250
        /\ particles[i].max_lifetime <= 2500
        /\ particles[i].lifetime =
               particles[i].max_lifetime - 10 * Age(particles[i])

\* The particles a step appends are made in the iteration that SpawnFrame
\* gives them.
SpawnedThisFrame ==
    \A j \in (Len(particles) + 1)..Len(particles') :
        SpawnFrame(particles'[j]) = frame

\* The smallest id in the pool (the ids grow along the list); with the
\* pool empty, the id of the next particle to be made.
Oldest == IF Len(particles) = 0 THEN spawned ELSE particles[1].id

\* The particles whose 250 ticks fit into the iterations of a run are
\* those with ids below EarlyEnd.
EarlyEnd == 3 * (MaxPoolFrames - 249)

\* Each of them is made and, later, is no longer in the pool.
EventuallyRemoved == <>[](spawned >= EarlyEnd /\ Oldest >= EarlyEnd)

C13_EventuallyRemoved ==
    /\ []AgeBound
    /\ [][SpawnedThisFrame]_vars
    /\ EventuallyRemoved

\* The slowest, longest-lived particle, undeflected and still inside the
\* bounding volume, about to go through its 250th tick, which removes it.
C13_Witness ==
    /\ loop[pc] = "update_particles"
    /\ Len(particles) > 0
    /\ Age(particles[1]) = 249
    /\ particles[1].lifetime = 10
    /\ ~DeadOutOfBounds(Update(particles[1], airfoil_angle))
    /\ Dead(Update(particles[1], airfoil_angle))

====
